---- MODULE Spec2Model ----
(***************************************************************************)
(* State-machine model of ProjectLog's entity store (ProjectLog/firebase.py *)
(* TaskLog) and of its entities (ProjectLog/data.py Project, Task,          *)
(* Recurrence; ProjectLog/serializable.py Serializable).                    *)
(*                                                                          *)
(* Python objects have identity: Project objects live in the heap pobjs,    *)
(* Task objects in the heap tobjs, and a reference is an index in its heap. *)
(* Dates are proleptic Gregorian ordinals (dt.date.toordinal()).            *)
(***************************************************************************)
EXTENDS Integers, Sequences, FiniteSets, TLC

VARIABLES pobjs, tobjs, projects, tasks, db, auth, remote, calls, last, nAuth, nOps,
          nFail

vars == <<pobjs, tobjs, projects, tasks, db, auth, remote, calls, last, nAuth, nOps, nFail>>

(***************************************************************************)
(* Bounds of the model.                                                     *)
(***************************************************************************)
\* authenticate calls in one run
MaxAuth == 1
\* calls of the other operations in one run
MaxOps == 3
\* remote calls that fail in one run
MaxFail == 1

(***************************************************************************)
(* Calendar: what dt.date does with ordinals.                               *)
(***************************************************************************)
\* dt.date(2000, 1, 1).toordinal(), the threshold of extract_priority_int
EpochOrdinal == 730120

IsLeap(y) == (y % 4 = 0) /\ ((y % 100 # 0) \/ (y % 400 = 0))

DaysInMonth(y, m) ==
    IF m = 2 THEN (IF IsLeap(y) THEN 29 ELSE 28)
    ELSE IF m \in {4, 6, 9, 11} THEN 30 ELSE 31

DaysBeforeYear(y) ==
    LET p == y - 1 IN p * 365 + (p \div 4) - (p \div 100) + (p \div 400)

RECURSIVE DaysBeforeMonth(_, _)
DaysBeforeMonth(y, m) ==
    IF m <= 1 THEN 0 ELSE DaysBeforeMonth(y, m - 1) + DaysInMonth(y, m - 1)

\* dt.date(y, m, d) accepts exactly these
ValidYmd(y, m, d) ==
    /\ y \in 1..9999
    /\ m \in 1..12
    /\ d >= 1
    /\ d <= DaysInMonth(y, m)

\* dt.date(y, m, d).toordinal()
Ymd2Ord(y, m, d) == DaysBeforeYear(y) + DaysBeforeMonth(y, m) + d

\* year of dt.date.fromordinal(n)
OrdYear(n) ==
    LET g == (n \div 365) + 1
    IN  IF DaysBeforeYear(g) < n THEN g
        ELSE IF DaysBeforeYear(g - 1) < n THEN g - 1 ELSE g - 2

RECURSIVE MonthFrom(_, _, _)
MonthFrom(y, rest, m) ==
    IF rest <= DaysInMonth(y, m) THEN m
    ELSE MonthFrom(y, rest - DaysInMonth(y, m), m + 1)

\* month of dt.date.fromordinal(n)
OrdMonth(n) == MonthFrom(OrdYear(n), n - DaysBeforeYear(OrdYear(n)), 1)

\* day of dt.date.fromordinal(n)
OrdDay(n) ==
    n - DaysBeforeYear(OrdYear(n)) - DaysBeforeMonth(OrdYear(n), OrdMonth(n))

\* dt.date.weekday(): Monday is 0
Weekday(n) == (n + 6) % 7

\* date.replace(day=1)
FirstOfMonth(n) == n - OrdDay(n) + 1

(***************************************************************************)
(* Values the callers draw their arguments from.                            *)
(***************************************************************************)
\* 2024-01-01 (a Monday) and 2024-01-31
Dates == {738886, 738916}
Names == {"a", "b"}
Descs == {"x", "y"}
\* Task.Action.DO and Task.Action.WRITE
Actions == {1, 4}
RecurrenceValues == {1, 2}

DAILY_RECURRENCE == "daily"
WEEKDAY_RECURRENCE == "weekday"
MONTHDAY_RECURRENCE == "monthday"
MONTHWEEKDAY_RECURRENCE == "monthwday"
options ==
    {DAILY_RECURRENCE, WEEKDAY_RECURRENCE, MONTHDAY_RECURRENCE, MONTHWEEKDAY_RECURRENCE}

\* Python's None
None == [type |-> "None"]

\* a priority is an int or a dt.date
IntPriority(v) == [type |-> "int", v |-> v]
DatePriority(v) == [type |-> "date", v |-> v]
Priorities == {IntPriority(1), DatePriority(738886)}

\* a Recurrence object: Recurrence.__init__
NewRecurrence(recurrence, value, dueDate) ==
    [type |-> "Recurrence", recurrence |-> recurrence, value |-> value,
     dueDate |-> dueDate, changeCb |-> <<>>]

RecurrenceArgs ==
    {None,
     NewRecurrence(DAILY_RECURRENCE, 1, 738886),
     NewRecurrence(MONTHDAY_RECURRENCE, 1, 738916)}

\* Task.project is a Project object or a bare UUID
ProjectRef(p) == [type |-> "Project", ref |-> p]
BareUUID(u) == [type |-> "UUID", uid |-> u]

\* a JSON value as the records hold it: a number, a string (a uid travels as its
\* hex string), null (None), or an object (a record)
JInt(v) == [type |-> "int", v |-> v]
JStr(v) == [type |-> "str", v |-> v]
\* what schema's type check isinstance(value, int) / isinstance(value, str) answers
IsInt(x) == "type" \in DOMAIN x /\ x.type = "int"
IsStr(x) == "type" \in DOMAIN x /\ x.type = "str"

\* the result of a call: a value, or the exception it raised
Ok(v) == [ok |-> TRUE, v |-> v]
Raise(e) == [ok |-> FALSE, err |-> e]

(***************************************************************************)
(* Recurrence                                                               *)
(***************************************************************************)
\* int(self.dueDate.day - 1 / 7) + 1: 1 / 7 is a float division, int() truncates
WeekNum(day) == ((7 * day - 1) \div 7) + 1

\* a getNextDate whose month-day kind clamps the day to the end of a shorter month
getNextDateClamped(r) ==
    IF r.recurrence = DAILY_RECURRENCE THEN Ok(r.dueDate + r.value)
    ELSE IF r.recurrence = WEEKDAY_RECURRENCE THEN Ok(r.dueDate + 7 * r.value)
    ELSE IF r.recurrence = MONTHDAY_RECURRENCE THEN
        LET year == OrdYear(r.dueDate)
            month == OrdMonth(r.dueDate) + r.value
        IN  IF month \in 1..12
            THEN Ok(Ymd2Ord(year, month,
                            IF OrdDay(r.dueDate) <= DaysInMonth(year, month)
                            THEN OrdDay(r.dueDate) ELSE DaysInMonth(year, month)))
            ELSE Raise("ValueError")
    ELSE IF r.recurrence = MONTHWEEKDAY_RECURRENCE THEN
        Ok(FirstOfMonth(FirstOfMonth(r.dueDate) + 32)
           + Weekday(FirstOfMonth(FirstOfMonth(r.dueDate) + 32)) - Weekday(r.dueDate)
           + 7 * WeekNum(OrdDay(r.dueDate)))
    ELSE Raise("RuntimeError")

\* a getNextDate whose weekday kind adds value days, not value weeks
getNextDateWeekOfOneDay(r) ==
    IF r.recurrence \in {DAILY_RECURRENCE, WEEKDAY_RECURRENCE} THEN Ok(r.dueDate + r.value)
    ELSE getNextDateClamped(r)

\* Recurrence.getNextDate
getNextDate(r) ==
    IF r.recurrence = DAILY_RECURRENCE THEN Ok(r.dueDate + r.value)
    ELSE IF r.recurrence = WEEKDAY_RECURRENCE THEN Ok(r.dueDate + 7 * r.value)
    ELSE IF r.recurrence = MONTHDAY_RECURRENCE THEN
        LET dayOfMonth == OrdDay(r.dueDate)
            year == OrdYear(r.dueDate)
            month == OrdMonth(r.dueDate) + r.value
        IN  IF ValidYmd(year, month, dayOfMonth)
            THEN Ok(Ymd2Ord(year, month, dayOfMonth))
            ELSE Raise("ValueError")
    ELSE IF r.recurrence = MONTHWEEKDAY_RECURRENCE THEN
        LET weekday == Weekday(r.dueDate)
            weekNum == WeekNum(OrdDay(r.dueDate))
            nextMonth == FirstOfMonth(FirstOfMonth(r.dueDate) + 32)
            adj == Weekday(nextMonth) - weekday
        IN  Ok(nextMonth + adj + 7 * weekNum)
    ELSE Raise("RuntimeError")

\* Recurrence.toDict
RecurrenceToDict(r) ==
    [recurrence |-> JStr(r.recurrence), value |-> JInt(r.value), dueDate |-> JInt(r.dueDate)]

\* Recurrence.recurrenceSchema: the three keys and no other (schema.Schema rejects a
\* key it does not list), the kind one of the four, value and dueDate of type int
RecurrenceSchemaOk(data) ==
    /\ DOMAIN data = {"recurrence", "value", "dueDate"}
    /\ IsStr(data.recurrence) /\ data.recurrence.v \in options
    /\ IsInt(data.value)
    /\ IsInt(data.dueDate)

\* Recurrence.fromDict
RecurrenceFromDict(data) ==
    IF RecurrenceSchemaOk(data)
    THEN IF data.dueDate.v < 1 THEN Raise("ValueError")
         ELSE Ok(NewRecurrence(data.recurrence.v, data.value.v, data.dueDate.v))
    ELSE Raise("SchemaError")

(***************************************************************************)
(* Project                                                                  *)
(***************************************************************************)
\* Project.__init__
NewProject(name, priority, uid) ==
    [name |-> name, priority |-> priority, tasks |-> <<>>, uid |-> uid,
     changeCb |-> <<>>]

\* Project.toDict: tasks are computed and dropped
ProjectToDict(p) ==
    [name |-> JStr(p.name), priority |-> JInt(p.priority.v), uid |-> JStr(p.uid)]

\* Project.extract_priority_int
extract_priority_int(priority_value) ==
    IF priority_value < EpochOrdinal
    THEN IntPriority(priority_value)
    ELSE DatePriority(priority_value)

\* projectSchema of Project.fromDict
ProjectSchemaOk(data) ==
    /\ DOMAIN data = {"name", "priority", "uid"}
    /\ IsStr(data.name)
    /\ IsInt(data.priority)
    /\ IsStr(data.uid)

\* Project.fromDict
ProjectFromDict(data) ==
    IF ProjectSchemaOk(data)
    THEN Ok(NewProject(data.name.v, extract_priority_int(data.priority.v), data.uid.v))
    ELSE Raise("SchemaError")

\* str.__lt__ on the names and descriptions in use: the order of the code points
StrRank(x) == CASE x = "a" -> 1 [] x = "b" -> 2 [] x = "x" -> 3 [] x = "y" -> 4
StrLt(x, y) == StrRank(x) < StrRank(y)

\* Project.__lt__
ProjectLt(p, q) ==
    IF p.priority.type = "date" /\ q.priority.type = "date"
    THEN IF p.priority.v < q.priority.v THEN TRUE
         ELSE IF p.priority.v > q.priority.v THEN FALSE
         ELSE StrLt(p.name, q.name)
    ELSE IF p.priority.type = "int" /\ q.priority.type = "int"
    THEN IF p.priority.v < q.priority.v THEN TRUE
         ELSE IF p.priority.v > q.priority.v THEN FALSE
         ELSE StrLt(p.name, q.name)
    ELSE IF p.priority.type = "int" /\ q.priority.type = "date" THEN FALSE
    ELSE TRUE

\* Project.hasTasks
hasTasks(p) == Len(p.tasks) > 0

\* Project.isComplete: every entry of tasks is a Task object
ProjectIsComplete(p) == \A i \in 1..Len(p.tasks) : p.tasks[i].type = "Task"

(***************************************************************************)
(* Task                                                                     *)
(***************************************************************************)
TaskRef(t) == [type |-> "Task", ref |-> t]

\* Project.addTask: the Task is appended
ProjectAddTask(p, t) == Ok([p EXCEPT !.tasks = Append(@, TaskRef(t))])

\* the fields Task.__init__ stores
NewTask(dueDate, project, desc, action, recurrence, uid) ==
    [dueDate |-> dueDate, project |-> project, desc |-> desc, action |-> action,
     recurrence |-> recurrence, uid |-> uid, changeCb |-> <<>>]

\* the uid a project field serializes to
ProjectUidOf(ps, project) ==
    IF project.type = "Project" THEN ps[project.ref].uid ELSE project.uid

\* Task.toDict
TaskToDict(ps, t) ==
    LET data == [dueDate |-> JInt(t.dueDate), project |-> JStr(ProjectUidOf(ps, t.project)),
                 desc |-> JStr(t.desc), action |-> JInt(t.action), uid |-> JStr(t.uid)]
    IN  IF t.recurrence # None
        THEN [k \in DOMAIN data \cup {"recurrence"} |->
                 IF k = "recurrence" THEN RecurrenceToDict(t.recurrence) ELSE data[k]]
        ELSE data

\* taskSchema of Task.fromDict: five required keys of the listed types, recurrence
\* optional, and no key the schema does not list
TaskSchemaOk(data) ==
    /\ {"dueDate", "project", "desc", "action", "uid"} \subseteq DOMAIN data
    /\ DOMAIN data \subseteq {"dueDate", "project", "desc", "action", "uid", "recurrence"}
    /\ IsInt(data.dueDate)
    /\ IsStr(data.project)
    /\ IsStr(data.desc)
    /\ IsInt(data.action)
    /\ IsStr(data.uid)
    /\ "recurrence" \in DOMAIN data => RecurrenceSchemaOk(data.recurrence)

\* Task.fromDict: the project is a bare UUID; dt.date.fromordinal and Task.Action
\* raise ValueError for a number that is no date and no Action
TaskFromDict(data) ==
    IF ~TaskSchemaOk(data) THEN Raise("SchemaError")
    ELSE LET recurrence == IF "recurrence" \in DOMAIN data
                           THEN RecurrenceFromDict(data.recurrence) ELSE Ok(None)
         IN  IF ~recurrence.ok THEN recurrence
             ELSE IF data.dueDate.v < 1 THEN Raise("ValueError")
             ELSE IF data.action.v \notin 1..11 THEN Raise("ValueError")
             ELSE Ok(NewTask(data.dueDate.v, BareUUID(data.project.v), data.desc.v,
                             data.action.v, recurrence.v, data.uid.v))

\* self.__project < other.project in Task.__lt__: Project.__lt__ reads
\* other.priority, which a UUID does not have; UUID.__lt__ answers NotImplemented
\* for a Project and Project has no __gt__ to reflect to
ProjectFieldLt(ps, a, b) ==
    IF a.type = "Project"
    THEN IF b.type = "Project" THEN Ok(ProjectLt(ps[a.ref], ps[b.ref]))
         ELSE Raise("AttributeError")
    ELSE IF b.type = "UUID" THEN Ok(a.uid < b.uid)
         ELSE Raise("TypeError")

\* self.__project > other.project in Task.__lt__: Project defines no __gt__, so
\* Python calls the reflected other.project.__lt__(self.__project)
ProjectFieldGt(ps, a, b) ==
    IF a.type = "Project" /\ b.type = "Project" THEN Ok(ProjectLt(ps[b.ref], ps[a.ref]))
    ELSE IF a.type = "UUID" /\ b.type = "UUID" THEN Ok(a.uid > b.uid)
    ELSE Raise("TypeError")

\* Task.__lt__ of the Task a against the Task b; ps is the heap of Project objects
TaskLt(ps, a, b) ==
    IF a.dueDate < b.dueDate THEN Ok(TRUE)
    ELSE IF a.dueDate > b.dueDate THEN Ok(FALSE)
    ELSE LET lt == ProjectFieldLt(ps, a.project, b.project)
             gt == ProjectFieldGt(ps, a.project, b.project)
         IN  IF ~lt.ok THEN lt
             ELSE IF lt.v THEN Ok(TRUE)
             ELSE IF ~gt.ok THEN gt
             ELSE IF gt.v THEN Ok(FALSE)
             ELSE IF a.action < b.action THEN Ok(TRUE)
             ELSE IF a.action > b.action THEN Ok(FALSE)
             ELSE Ok(StrLt(a.desc, b.desc))

\* Task.isComplete
TaskIsComplete(t) == t.project.type = "UUID"

(***************************************************************************)
(* Serializable                                                             *)
(***************************************************************************)
\* a _resolveObj that treats an entity of another type as a missing one
resolveObjLenient(id, t, objects) ==
    IF id \in DOMAIN objects /\ objects[id].type = t THEN Ok(objects[id]) ELSE Ok(None)

\* Serializable._resolveObj: objects maps a uid to a reference, t is "Project" or "Task"
resolveObj(id, t, objects) ==
    IF id \in DOMAIN objects
    THEN IF objects[id].type = t THEN Ok(objects[id]) ELSE Raise("RuntimeError")
    ELSE Ok(None)

\* objMap[uid] = obj
DictPut(d, k, v) == [x \in DOMAIN d \cup {k} |-> IF x = k THEN v ELSE d[x]]

\* list.remove(x): the first entry equal to x goes
RECURSIVE ListRemove(_, _)
ListRemove(l, x) ==
    IF l = <<>> THEN <<>>
    ELSE IF Head(l) = x THEN Tail(l)
    ELSE <<Head(l)>> \o ListRemove(Tail(l), x)

InList(l, x) == \E i \in 1..Len(l) : l[i] = x

\* Project.complete: every bare UUID of tasks that resolves is replaced by its Task
RECURSIVE ProjectCompleteFrom(_, _, _)
ProjectCompleteFrom(p, todo, objects) ==
    IF todo = <<>> THEN Ok(p)
    ELSE LET obj == resolveObj(Head(todo).uid, "Task", objects)
         IN  IF ~obj.ok THEN obj
             ELSE IF obj.v = None THEN ProjectCompleteFrom(p, Tail(todo), objects)
             ELSE ProjectCompleteFrom(
                      [p EXCEPT !.tasks = ListRemove(Append(@, obj.v), Head(todo))],
                      Tail(todo), objects)

ProjectComplete(p, objects) ==
    ProjectCompleteFrom(p, SelectSeq(p.tasks, LAMBDA e : e.type = "UUID"), objects)

(***************************************************************************)
(* The remote store (pyrebase Database)                                     *)
(***************************************************************************)
Collections == {"projects", "tasks", "archivetasks"}

\* a path below data/{userId}
Path(coll, uid) == <<coll, uid>>

\* Database.update(data): every path is set, or deleted when its value is None,
\* in one multi-location update
Update(rem, data) ==
    LET coll(c) ==
            LET dels == {p[2] : p \in {q \in DOMAIN data : q[1] = c /\ data[q] = None}}
                puts == {p[2] : p \in {q \in DOMAIN data : q[1] = c /\ data[q] # None}}
            IN  [u \in (DOMAIN rem[c] \ dels) \cup puts |->
                    IF u \in puts THEN data[Path(c, u)] ELSE rem[c][u]]
    IN  [initialized |-> rem.initialized,
         projects |-> coll("projects"),
         tasks |-> coll("tasks"),
         archivetasks |-> coll("archivetasks")]

\* one Database.update call as the remote store sees it
Call(data, ok) == [data |-> data, ok |-> ok]

\* callbacks.Callback
Callback(fn) == [fn |-> fn, kwargs |-> <<>>, args |-> <<>>]

\* Callback(fn=fn, kwargs=kwargs, args=args) of registerOnChangeCallback
Registered(fn, args, kwargs) == [fn |-> fn, kwargs |-> kwargs, args |-> args]

\* cb.fn(*cb.args, **cb.kwargs, project=self) or (..., task=self) as the callee sees
\* it: its own function, the registration-time arguments, the keyword under which
\* the entity comes, and the entity's record at that moment
Invocation(cb, path, rec) ==
    [fn |-> cb.fn, args |-> cb.args, kwargs |-> cb.kwargs,
     kw |-> IF path[1] = "projects" THEN "project" ELSE "task", entity |-> rec]

\* TaskLog.__updateFirebaseProject and __updateFirebaseTask, the store's callbacks
StoreCallbacks == {"updateFirebaseProject", "updateFirebaseTask"}

\* Project.__doChangeCbs / Task.__doChangeCbs on an entity whose record is rec:
\* the callbacks run in order; the store's one writes rec under path and raises
\* when its update call fails (failAt is the index of the callback whose call fails)
RECURSIVE DoChangeCbsFrom(_, _, _, _, _, _)
DoChangeCbsFrom(cbs, i, path, rec, failAt, st) ==
    IF i > Len(cbs) THEN st
    ELSE LET called == [st EXCEPT !.invoked = Append(@, Invocation(cbs[i], path, rec))]
         IN  IF cbs[i].fn \in StoreCallbacks
             THEN IF ~st.db THEN [called EXCEPT !.err = "RuntimeError"]
                  ELSE IF i = failAt
                  THEN [called EXCEPT !.calls = Append(@, Call(path :> rec, FALSE)),
                                      !.err = "HTTPError"]
                  ELSE DoChangeCbsFrom(cbs, i + 1, path, rec, failAt,
                           [called EXCEPT !.remote = Update(@, path :> rec),
                                          !.calls = Append(@, Call(path :> rec, TRUE))])
             ELSE DoChangeCbsFrom(cbs, i + 1, path, rec, failAt, called)

\* what __doChangeCbs starts from: nothing called, nothing raised
NotYetCalled == [remote |-> remote, calls |-> <<>>, err |-> "", db |-> db, invoked |-> <<>>]

\* a setter that stores the value and runs no callback
DoChangeCbsNone(cbs, path, rec, failAt) == NotYetCalled

\* callbacks that keep a failed update call to themselves
DoChangeCbsSwallow(cbs, path, rec, failAt) ==
    [DoChangeCbsFrom(cbs, 1, path, rec, failAt, NotYetCalled) EXCEPT !.err = ""]

DoChangeCbs(cbs, path, rec, failAt) ==
    DoChangeCbsFrom(cbs, 1, path, rec, failAt, NotYetCalled)

(***************************************************************************)
(* What the remote store holds when the program starts: records written by  *)
(* earlier sessions (Project.toDict, Task.toDict).                          *)
(***************************************************************************)
StoredProject(uid) ==
    IF uid = 1 THEN ProjectToDict(NewProject("a", IntPriority(1), 1))
    ELSE ProjectToDict(NewProject("b", DatePriority(738886), uid))

StoredTask(uid, project, recurrence) ==
    TaskToDict(<<>>, NewTask(738886, BareUUID(project), "x", 4,
                             IF uid = 3 THEN recurrence ELSE None, uid))

\* a record that lacks some keys
Without(rec, keys) == [k \in DOMAIN rec \ keys |-> rec[k]]

\* project 1 with tasks 3 (recurring daily) and 4; projects 1 and 2 with task 3 of
\* project 2; project 1 with task 3 of a project 2 that is not there; project 1 with
\* a task 3 whose record has no desc; project 1 with task 4 and a task 3 whose
\* project identifier is the uid of task 4
InitialRemotes ==
    {[initialized |-> FALSE,
      projects |-> [u \in c.ps |-> StoredProject(u)],
      tasks |-> [u \in c.ts |->
                    IF u = 3 THEN Without(StoredTask(u, c.p3, c.r3), c.omit)
                    ELSE StoredTask(u, 1, None)],
      archivetasks |-> <<>>] :
        c \in {[ps |-> {1}, ts |-> {3, 4}, p3 |-> 1, omit |-> {},
                r3 |-> NewRecurrence(DAILY_RECURRENCE, 1, 738886)],
               [ps |-> {1, 2}, ts |-> {3}, p3 |-> 2, omit |-> {}, r3 |-> None],
               [ps |-> {1}, ts |-> {3}, p3 |-> 2, omit |-> {}, r3 |-> None],
               [ps |-> {1}, ts |-> {3}, p3 |-> 1, omit |-> {"desc"}, r3 |-> None],
               [ps |-> {1}, ts |-> {3, 4}, p3 |-> 4, omit |-> {}, r3 |-> None]}}

\* the orders in which the keys of a JSON object can arrive
Orders(S) ==
    {o \in [1..Cardinality(S) -> S] : \A i, j \in 1..Cardinality(S) : i # j => o[i] # o[j]}

(***************************************************************************)
(* TaskLog                                                                  *)
(***************************************************************************)
\* what the caller of the last operation saw: the operation, the object it was called
\* on, the exception it raised if any; for a property setter, the value assigned
Done(op, ref, err) == [op |-> op, ref |-> ref, err |-> err]
Assigned(op, ref, arg, err) == [op |-> op, ref |-> ref, err |-> err, arg |-> arg]

\* for a property setter of a Project or Task, also the callbacks it invoked
Notified(op, ref, arg, r) ==
    [op |-> op, ref |-> ref, err |-> r.err, arg |-> arg, invoked |-> r.invoked]

\* the authentication state: the id token TaskLog holds in __token (0 is '', n the
\* n-th token the service issued), the id tokens the authentication service has
\* issued, the __autoRefresh threads that run
SignedOut == [token |-> 0, issued |-> 0, refreshers |-> 0]

\* sign_in_with_email_and_password: the service issues a token, TaskLog keeps it
SignedIn == [auth EXCEPT !.token = auth.issued + 1, !.issued = auth.issued + 1]

Init ==
    /\ pobjs = <<>>
    /\ tobjs = <<>>
    /\ projects = <<>>
    /\ tasks = <<>>
    /\ db = FALSE
    /\ auth = SignedOut
    /\ remote \in InitialRemotes
    /\ calls = <<>>
    /\ last = Done("init", 0, "")
    /\ nAuth = 0
    /\ nOps = 0
    /\ nFail = 0

\* __loadFromDb, first loop: Project.fromDict, objMap, append, register
RECURSIVE LoadProjects(_, _)
LoadProjects(recs, st) ==
    IF recs = <<>> \/ st.err # "" THEN st
    ELSE LET r == ProjectFromDict(Head(recs))
             ref == Len(st.pobjs) + 1
         IN  IF ~r.ok THEN [st EXCEPT !.err = r.err]
             ELSE LoadProjects(Tail(recs),
                      [st EXCEPT
                          !.objMap = DictPut(@, r.v.uid, ProjectRef(ref)),
                          !.projects = Append(@, ref),
                          !.pobjs = Append(@, [r.v EXCEPT !.changeCb =
                                         Append(@, Callback("updateFirebaseProject"))])])

\* __loadFromDb, second loop: Task.fromDict, objMap, append, register
RECURSIVE LoadTasks(_, _)
LoadTasks(recs, st) ==
    IF recs = <<>> \/ st.err # "" THEN st
    ELSE LET r == TaskFromDict(Head(recs))
             ref == Len(st.tobjs) + 1
         IN  IF ~r.ok THEN [st EXCEPT !.err = r.err]
             ELSE LoadTasks(Tail(recs),
                      [st EXCEPT
                          !.objMap = DictPut(@, r.v.uid, TaskRef(ref)),
                          !.tasks = Append(@, ref),
                          !.tobjs = Append(@, [r.v EXCEPT !.changeCb =
                                         Append(@, Callback("updateFirebaseTask"))])])

\* __loadFromDb: for project in self.__projects: project.complete(objMap)
RECURSIVE ResolveProjects(_, _)
ResolveProjects(todo, st) ==
    IF todo = <<>> \/ st.err # "" THEN st
    ELSE LET r == ProjectComplete(st.pobjs[Head(todo)], st.objMap)
         IN  IF ~r.ok THEN [st EXCEPT !.err = r.err]
             ELSE ResolveProjects(Tail(todo), [st EXCEPT !.pobjs[Head(todo)] = r.v])

\* a Task.complete that links the Project and does not add the Task to it
TaskCompleteNoAddTask(t, st) ==
    IF st.tobjs[t].project.type # "UUID" THEN st
    ELSE LET obj == resolveObj(st.tobjs[t].project.uid, "Project", st.objMap)
         IN  IF ~obj.ok THEN [st EXCEPT !.err = obj.err]
             ELSE IF obj.v = None THEN st
             ELSE [st EXCEPT !.tobjs[t].project = obj.v]

\* a Task.complete that links the Project through the Task.project setter, whose
\* callbacks write the Task
TaskCompleteBySetter(t, st) ==
    IF st.tobjs[t].project.type # "UUID" THEN st
    ELSE LET obj == resolveObj(st.tobjs[t].project.uid, "Project", st.objMap)
             data == Path("tasks", st.tobjs[t].uid)
                         :> TaskToDict(st.pobjs, [st.tobjs[t] EXCEPT !.project = obj.v])
         IN  IF ~obj.ok THEN [st EXCEPT !.err = obj.err]
             ELSE IF obj.v = None THEN st
             ELSE [st EXCEPT !.tobjs[t].project = obj.v,
                             !.pobjs[obj.v.ref].tasks = Append(@, TaskRef(t)),
                             !.remote = Update(@, data),
                             !.calls = Append(@, Call(data, TRUE))]

\* Task.complete on the Task object t: a bare project UUID found in objects becomes
\* the Project object, and the Task is appended to that Project's tasks
TaskComplete(t, st) ==
    IF st.tobjs[t].project.type # "UUID" THEN st
    ELSE LET obj == resolveObj(st.tobjs[t].project.uid, "Project", st.objMap)
         IN  IF ~obj.ok THEN [st EXCEPT !.err = obj.err]
             ELSE IF obj.v = None THEN st
             ELSE [st EXCEPT !.tobjs[t].project = obj.v,
                             !.pobjs[obj.v.ref].tasks = Append(@, TaskRef(t))]

\* __loadFromDb: for task in self.__tasks: task.complete(objMap)
RECURSIVE ResolveTasks(_, _)
ResolveTasks(todo, st) ==
    IF todo = <<>> \/ st.err # "" THEN st
    ELSE ResolveTasks(Tail(todo), TaskComplete(Head(todo), st))

\* TaskLog.__loadFromDb on the records as they arrive; remote and calls are the
\* store and the update calls made while it runs
loadFromDb(precs, trecs) ==
    LET st0 == [pobjs |-> pobjs, tobjs |-> tobjs, projects |-> projects,
                tasks |-> tasks, objMap |-> <<>>, err |-> "",
                remote |-> [remote EXCEPT !.initialized = TRUE], calls |-> <<>>]
        st1 == LoadProjects(precs, st0)
        st2 == LoadTasks(trecs, st1)
        st3 == ResolveProjects(st2.projects, st2)
    IN  ResolveTasks(st3.tasks, st3)

\* TaskLog.__setUpDb's update call
SetUpCall(ok) == Call(<<"initialized">> :> [value |-> TRUE], ok)

\* TaskLog.authenticate: sign in, __setUpDb, __loadFromDb, and when none of them
\* raised, the start of an __autoRefresh thread. fail names the remote call that
\* fails, if one does.
Authenticate(fail, porder, torder) ==
    /\ nAuth < MaxAuth
    /\ fail # "none" => nFail < MaxFail
    /\ nAuth' = nAuth + 1
    /\ nFail' = IF fail = "none" THEN nFail ELSE nFail + 1
    /\ nOps' = nOps
    /\ IF fail = "signin"
       THEN /\ last' = Done("authenticate", 0, "AuthenticationError")
            /\ calls' = <<>>
            /\ UNCHANGED <<pobjs, tobjs, projects, tasks, db, auth, remote>>
       ELSE IF fail = "setup"
       THEN /\ db' = TRUE
            /\ auth' = SignedIn
            /\ last' = Done("authenticate", 0, "AuthenticationError")
            /\ calls' = <<SetUpCall(FALSE)>>
            /\ UNCHANGED <<pobjs, tobjs, projects, tasks, remote>>
       ELSE IF fail = "get"
       THEN /\ db' = TRUE
            /\ auth' = SignedIn
            /\ remote' = [remote EXCEPT !.initialized = TRUE]
            /\ last' = Done("authenticate", 0, "AuthenticationError")
            /\ calls' = <<SetUpCall(TRUE)>>
            /\ UNCHANGED <<pobjs, tobjs, projects, tasks>>
       ELSE LET st == loadFromDb([i \in DOMAIN porder |-> remote.projects[porder[i]]],
                                 [i \in DOMAIN torder |-> remote.tasks[torder[i]]])
            IN  /\ db' = TRUE
                /\ auth' = IF st.err = ""
                           THEN [SignedIn EXCEPT !.refreshers = @ + 1]
                           ELSE SignedIn
                /\ remote' = st.remote
                /\ pobjs' = st.pobjs
                /\ tobjs' = st.tobjs
                /\ projects' = st.projects
                /\ tasks' = st.tasks
                /\ last' = Done("authenticate", 0, st.err)
                /\ calls' = <<SetUpCall(TRUE)>> \o st.calls

\* every operation but authenticate counts against MaxOps; the callers use the
\* store once authenticate has been called
Op ==
    /\ nAuth > 0
    /\ nOps < MaxOps
    /\ nOps' = nOps + 1

\* uuid1() of a Project or Task constructed in this session: distinct from every
\* uid in use
NewProjectUid == 10 + Len(pobjs) + 1
NewTaskUid == 20 + Len(tobjs) + 1

\* ui/dialog.py AddProjectDialog.__ok: Project(name, date)
ConstructProject(name, priority) ==
    /\ Op
    /\ pobjs' = Append(pobjs, NewProject(name, priority, NewProjectUid))
    /\ calls' = <<>>
    /\ last' = Done("Project", Len(pobjs) + 1, "")
    /\ UNCHANGED <<tobjs, projects, tasks, db, remote, auth, nAuth, nFail>>

\* ui/dialog.py AddTaskDialog.__ok: Task(dueDate, project, desc, action, recurrence)
\* with a Project object; Task.__init__ adds the Task to that Project's tasks
ConstructTask(dueDate, p, desc, action, recurrence) ==
    /\ Op
    /\ p \in DOMAIN pobjs
    /\ tobjs' = Append(tobjs, NewTask(dueDate, ProjectRef(p), desc, action,
                                      recurrence, NewTaskUid))
    /\ pobjs' = [pobjs EXCEPT ![p].tasks = Append(@, TaskRef(Len(tobjs) + 1))]
    /\ calls' = <<>>
    /\ last' = Done("Task", Len(tobjs) + 1, "")
    /\ UNCHANGED <<projects, tasks, db, remote, auth, nAuth, nFail>>

\* one update call of an operation: it changes the remote store unless it fails
Written(data, ok) ==
    /\ ~ok => nFail < MaxFail
    /\ nFail' = IF ok THEN nFail ELSE nFail + 1
    /\ remote' = IF ok THEN Update(remote, data) ELSE remote
    /\ calls' = <<Call(data, ok)>>

\* TaskLog.addProject
AddProject(p, ok) ==
    /\ p \in DOMAIN pobjs
    /\ Op
    /\ IF ~db
       THEN /\ ok
            /\ last' = Done("addProject", p, "RuntimeError")
            /\ calls' = <<>>
            /\ UNCHANGED <<projects, remote, nFail>>
       ELSE /\ projects' = Append(projects, p)
            /\ Written(Path("projects", pobjs[p].uid) :> ProjectToDict(pobjs[p]), ok)
            /\ last' = Done("addProject", p, IF ok THEN "" ELSE "HTTPError")
    /\ UNCHANGED <<pobjs, tobjs, tasks, db, auth, nAuth>>

\* an addTask that writes the Task under the projects/ subtree
AddTaskUnderProjects(t, ok) ==
    /\ t \in DOMAIN tobjs
    /\ Op
    /\ IF ~db
       THEN /\ ok
            /\ last' = Done("addTask", t, "RuntimeError")
            /\ calls' = <<>>
            /\ UNCHANGED <<tasks, remote, nFail>>
       ELSE /\ tasks' = Append(tasks, t)
            /\ Written(Path("projects", tobjs[t].uid) :> TaskToDict(pobjs, tobjs[t]), ok)
            /\ last' = Done("addTask", t, IF ok THEN "" ELSE "HTTPError")
    /\ UNCHANGED <<pobjs, tobjs, projects, db, auth, nAuth>>

\* TaskLog.addTask
AddTask(t, ok) ==
    /\ t \in DOMAIN tobjs
    /\ Op
    /\ IF ~db
       THEN /\ ok
            /\ last' = Done("addTask", t, "RuntimeError")
            /\ calls' = <<>>
            /\ UNCHANGED <<tasks, remote, nFail>>
       ELSE /\ tasks' = Append(tasks, t)
            /\ Written(Path("tasks", tobjs[t].uid) :> TaskToDict(pobjs, tobjs[t]), ok)
            /\ last' = Done("addTask", t, IF ok THEN "" ELSE "HTTPError")
    /\ UNCHANGED <<pobjs, tobjs, projects, db, auth, nAuth>>

\* a failing callback must be one that calls the remote store
CanFailAt(cbs, failAt) ==
    \/ failAt = 0
    \/ /\ failAt \in DOMAIN cbs
       /\ cbs[failAt].fn \in StoreCallbacks
       /\ nFail < MaxFail

\* a Project property setter: the field is stored, then __doChangeCbs
ProjectSetter(op, p, arg, new, failAt) ==
    /\ Op
    /\ CanFailAt(new.changeCb, failAt)
    /\ LET r == DoChangeCbs(new.changeCb, Path("projects", new.uid),
                            ProjectToDict(new), failAt)
       IN  /\ pobjs' = [pobjs EXCEPT ![p] = new]
           /\ remote' = r.remote
           /\ calls' = r.calls
           /\ last' = Notified(op, p, arg, r)
    /\ nFail' = IF failAt = 0 THEN nFail ELSE nFail + 1
    /\ UNCHANGED <<tobjs, projects, tasks, db, auth, nAuth>>

\* the callbacks a caller registers on a Project: the store's write callback once
\* more, and ui/task_list.py's __doProjectChangeHandler with its task_entry keyword
ProjectCallbacks ==
    {Callback("updateFirebaseProject"),
     Registered("doProjectChangeHandler", <<>>, [task_entry |-> "entry"])}

\* a handler with a positional argument
TaskCallbacks == {Registered("handler", <<"arg">>, <<>>)}

\* Project.registerOnChangeCallback(fn, args, kwargs)
RegisterProjectCallback(p, cb) ==
    /\ p \in DOMAIN pobjs
    /\ Op
    /\ pobjs' = [pobjs EXCEPT ![p].changeCb = Append(@, cb)]
    /\ calls' = <<>>
    /\ last' = Done("Project.registerOnChangeCallback", p, "")
    /\ UNCHANGED <<tobjs, projects, tasks, db, auth, remote, nAuth, nFail>>

\* Task.registerOnChangeCallback(fn, args, kwargs)
RegisterTaskCallback(t, cb) ==
    /\ t \in DOMAIN tobjs
    /\ Op
    /\ tobjs' = [tobjs EXCEPT ![t].changeCb = Append(@, cb)]
    /\ calls' = <<>>
    /\ last' = Done("Task.registerOnChangeCallback", t, "")
    /\ UNCHANGED <<pobjs, projects, tasks, db, auth, remote, nAuth, nFail>>

\* Project.name setter
SetProjectName(p, name, failAt) ==
    /\ p \in DOMAIN pobjs
    /\ ProjectSetter("Project.name", p, name, [pobjs[p] EXCEPT !.name = name], failAt)

\* Project.priority setter
SetProjectPriority(p, priority, failAt) ==
    /\ p \in DOMAIN pobjs
    /\ ProjectSetter("Project.priority", p, priority, [pobjs[p] EXCEPT !.priority = priority],
                     failAt)

\* a Task property setter: the field is stored, then __doChangeCbs
TaskSetter(op, t, arg, new, failAt) ==
    /\ Op
    /\ CanFailAt(new.changeCb, failAt)
    /\ LET r == DoChangeCbs(new.changeCb, Path("tasks", new.uid),
                            TaskToDict(pobjs, new), failAt)
       IN  /\ tobjs' = [tobjs EXCEPT ![t] = new]
           /\ remote' = r.remote
           /\ calls' = r.calls
           /\ last' = Notified(op, t, arg, r)
    /\ nFail' = IF failAt = 0 THEN nFail ELSE nFail + 1
    /\ UNCHANGED <<pobjs, projects, tasks, db, auth, nAuth>>

\* Task.dueDate setter
SetTaskDueDate(t, dueDate, failAt) ==
    /\ t \in DOMAIN tobjs
    /\ TaskSetter("Task.dueDate", t, dueDate, [tobjs[t] EXCEPT !.dueDate = dueDate], failAt)

\* Task.project setter (ui/task_list.py _onProjectSelected passes a Project object)
SetTaskProject(t, p, failAt) ==
    /\ t \in DOMAIN tobjs
    /\ p \in DOMAIN pobjs
    /\ TaskSetter("Task.project", t, ProjectRef(p), [tobjs[t] EXCEPT !.project = ProjectRef(p)], failAt)

\* Task.desc setter
SetTaskDesc(t, desc, failAt) ==
    /\ t \in DOMAIN tobjs
    /\ TaskSetter("Task.desc", t, desc, [tobjs[t] EXCEPT !.desc = desc], failAt)

\* Task.action setter
SetTaskAction(t, action, failAt) ==
    /\ t \in DOMAIN tobjs
    /\ TaskSetter("Task.action", t, action, [tobjs[t] EXCEPT !.action = action], failAt)

\* Task.recurrence setter
SetTaskRecurrence(t, recurrence, failAt) ==
    /\ t \in DOMAIN tobjs
    /\ TaskSetter("Task.recurrence", t, recurrence,
                  [tobjs[t] EXCEPT !.recurrence = recurrence],
                  failAt)

\* Recurrence.__doChangeCbs: cb.fn(task=self) hands the Recurrence to the callback; the
\* store's callbacks read task.uid, which a Recurrence does not have
RecurrenceDoChangeCbs(cbs) ==
    IF \E i \in DOMAIN cbs : cbs[i].fn \in StoreCallbacks THEN "AttributeError" ELSE ""

\* a property setter of the Recurrence object held by Task t
RecurrenceSetter(op, t, arg, new) ==
    /\ Op
    /\ tobjs' = [tobjs EXCEPT ![t].recurrence = new]
    /\ calls' = <<>>
    /\ last' = Assigned(op, t, arg, RecurrenceDoChangeCbs(new.changeCb))
    /\ UNCHANGED <<pobjs, projects, tasks, db, remote, auth, nAuth, nFail>>

HasRecurrence(t) == t \in DOMAIN tobjs /\ tobjs[t].recurrence # None

\* Recurrence.dueDate setter
SetRecurrenceDueDate(t, dueDate) ==
    /\ HasRecurrence(t)
    /\ RecurrenceSetter("Recurrence.dueDate", t, dueDate,
                        [tobjs[t].recurrence EXCEPT !.dueDate = dueDate])

\* Recurrence.value setter
SetRecurrenceValue(t, value) ==
    /\ HasRecurrence(t)
    /\ RecurrenceSetter("Recurrence.value", t, value,
                        [tobjs[t].recurrence EXCEPT !.value = value])

\* Recurrence.recurrence setter
SetRecurrenceKind(t, kind) ==
    /\ HasRecurrence(t)
    /\ RecurrenceSetter("Recurrence.recurrence", t, kind,
                        [tobjs[t].recurrence EXCEPT !.recurrence = kind])

\* TaskLog.completeTask, the else branch: what its one update call carries
\* a completion that deletes the active record and archives nothing
CompleteDataNoArchive(t) == Path("tasks", tobjs[t].uid) :> None

CompleteData(t) ==
    Path("tasks", tobjs[t].uid) :> None
    @@ Path("archivetasks", tobjs[t].uid) :> TaskToDict(pobjs, tobjs[t])

\* TaskLog.completeTask; failAt = 1 when its remote call fails
CompleteTask(t, failAt) ==
    /\ t \in DOMAIN tobjs
    /\ Op
    /\ IF ~db
       THEN /\ failAt = 0
            /\ last' = Done("completeTask", t, "RuntimeError")
            /\ calls' = <<>>
            /\ UNCHANGED <<tobjs, tasks, remote, nFail>>
       ELSE IF tobjs[t].recurrence # None
       THEN LET next == getNextDate(tobjs[t].recurrence)
                new == [tobjs[t] EXCEPT !.dueDate = next.v]
            IN  IF ~next.ok
                THEN /\ failAt = 0
                     /\ last' = Done("completeTask", t, next.err)
                     /\ calls' = <<>>
                     /\ UNCHANGED <<tobjs, tasks, remote, nFail>>
                ELSE /\ CanFailAt(new.changeCb, failAt)
                     /\ LET r == DoChangeCbs(new.changeCb, Path("tasks", new.uid),
                                             TaskToDict(pobjs, new), failAt)
                        IN  /\ tobjs' = [tobjs EXCEPT ![t] = new]
                            /\ remote' = r.remote
                            /\ calls' = r.calls
                            /\ last' = Done("completeTask", t, r.err)
                     /\ nFail' = IF failAt = 0 THEN nFail ELSE nFail + 1
                     /\ UNCHANGED tasks
       ELSE IF ~InList(tasks, t)
       THEN /\ failAt = 0
            /\ last' = Done("completeTask", t, "ValueError")
            /\ calls' = <<>>
            /\ UNCHANGED <<tobjs, tasks, remote, nFail>>
       ELSE /\ failAt \in {0, 1}
            /\ tasks' = ListRemove(tasks, t)
            /\ Written(CompleteData(t), failAt = 0)
            /\ last' = Done("completeTask", t, IF failAt = 0 THEN "" ELSE "HTTPError")
            /\ UNCHANGED tobjs
    /\ UNCHANGED <<pobjs, projects, db, auth, nAuth>>

\* ui/project_list.py removeProject calls TaskLog.removeProject, which TaskLog does
\* not define: the attribute lookup raises
RemoveProject(p) ==
    /\ p \in DOMAIN pobjs
    /\ Op
    /\ last' = Done("removeProject", p, "AttributeError")
    /\ calls' = <<>>
    /\ UNCHANGED <<pobjs, tobjs, projects, tasks, db, remote, auth, nAuth, nFail>>

\* a refresh that afterwards reloads the store
RefreshAuthReloading(ok) ==
    /\ Op
    /\ auth.refreshers > 0
    /\ ok
    /\ auth' = [auth EXCEPT !.issued = @ + 1]
    /\ projects' = <<>>
    /\ tasks' = <<>>
    /\ UNCHANGED <<pobjs, tobjs, db, remote, calls, last, nAuth, nFail>>

\* one round of an __autoRefresh thread, at any time between two operations of the
\* main thread: refreshAuth reads __user and has the service issue a new token,
\* which it does not keep; when the call fails the exception ends the thread
RefreshAuth(ok) ==
    /\ Op
    /\ auth.refreshers > 0
    /\ ~ok => nFail < MaxFail
    /\ nFail' = IF ok THEN nFail ELSE nFail + 1
    /\ auth' = IF auth.token = 0 \/ ~ok
               THEN [auth EXCEPT !.refreshers = @ - 1]
               ELSE [auth EXCEPT !.issued = @ + 1]
    /\ UNCHANGED <<pobjs, tobjs, projects, tasks, db, remote, calls, last, nAuth>>

\* TaskLog.getProjects and TaskLog.getTasks return the lists themselves
getProjects == projects
getTasks == tasks

Next ==
    \/ \E fail \in {"none", "signin", "setup", "get"},
          porder \in Orders(DOMAIN remote.projects),
          torder \in Orders(DOMAIN remote.tasks) :
            Authenticate(fail, porder, torder)
    \/ \E name \in Names : ConstructProject(name, DatePriority(738886))
    \/ \E p \in DOMAIN pobjs, recurrence \in RecurrenceArgs :
            ConstructTask(738886, p, "y", 1, recurrence)
    \/ \E p \in DOMAIN pobjs, ok \in BOOLEAN : AddProject(p, ok)
    \/ \E t \in DOMAIN tobjs, ok \in BOOLEAN : AddTask(t, ok)
    \/ \E p \in DOMAIN pobjs, name \in Names :
          \E failAt \in 0..Len(pobjs[p].changeCb) :
            SetProjectName(p, name, failAt)
    \/ \E p \in DOMAIN pobjs, priority \in Priorities :
          \E failAt \in 0..Len(pobjs[p].changeCb) :
            SetProjectPriority(p, priority, failAt)
    \/ \E t \in DOMAIN tobjs, dueDate \in Dates :
          \E failAt \in 0..Len(tobjs[t].changeCb) :
            SetTaskDueDate(t, dueDate, failAt)
    \/ \E t \in DOMAIN tobjs, p \in DOMAIN pobjs :
          \E failAt \in 0..Len(tobjs[t].changeCb) :
            SetTaskProject(t, p, failAt)
    \/ \E t \in DOMAIN tobjs, desc \in Descs :
          \E failAt \in 0..Len(tobjs[t].changeCb) :
            SetTaskDesc(t, desc, failAt)
    \/ \E t \in DOMAIN tobjs, action \in Actions :
          \E failAt \in 0..Len(tobjs[t].changeCb) :
            SetTaskAction(t, action, failAt)
    \/ \E t \in DOMAIN tobjs, recurrence \in RecurrenceArgs :
          \E failAt \in 0..Len(tobjs[t].changeCb) :
            SetTaskRecurrence(t, recurrence, failAt)
    \/ \E t \in DOMAIN tobjs, dueDate \in Dates : SetRecurrenceDueDate(t, dueDate)
    \/ \E t \in DOMAIN tobjs, value \in RecurrenceValues : SetRecurrenceValue(t, value)
    \/ \E t \in DOMAIN tobjs, kind \in options : SetRecurrenceKind(t, kind)
    \/ \E t \in DOMAIN tobjs, failAt \in {0, 1} : CompleteTask(t, failAt)
    \/ \E p \in DOMAIN pobjs : RemoveProject(p)
    \/ \E ok \in BOOLEAN : RefreshAuth(ok)
    \/ \E p \in DOMAIN pobjs, cb \in ProjectCallbacks : RegisterProjectCallback(p, cb)
    \/ \E t \in DOMAIN tobjs, cb \in TaskCallbacks : RegisterTaskCallback(t, cb)

Spec == Init /\ [][Next]_vars

(***************************************************************************)
(* The functions of data.py called on their own: a caller holds entities    *)
(* and records and calls getNextDate, fromDict, toDict and __lt__ on them.  *)
(***************************************************************************)
\* every day of 2023 and 2024
AnchorDates ==
    {Ymd2Ord(c[1], c[2], c[3]) :
        c \in {x \in {2023, 2024} \X (1..12) \X (1..31) : ValidYmd(x[1], x[2], x[3])}}

IntervalValues == {1, 2, 3, 12}

\* the Recurrence objects getNextDate is called on
Rules ==
    {NewRecurrence(kind, value, dueDate) :
        kind \in options, value \in IntervalValues, dueDate \in AnchorDates}

\* the Project objects the Tasks below refer to
SomeProjects ==
    <<NewProject("a", IntPriority(1), 11),
      NewProject("b", IntPriority(1), 12),
      NewProject("a", DatePriority(Ymd2Ord(2024, 1, 1)), 13)>>

\* Tasks of these Projects, and Tasks whose project is still a bare UUID
SomeTasks ==
    {NewTask(dueDate, project, desc, action, None, 21) :
        dueDate \in {Ymd2Ord(2024, 1, 1), Ymd2Ord(2024, 1, 2)},
        project \in {ProjectRef(1), ProjectRef(2), ProjectRef(3), BareUUID(14)},
        desc \in Descs, action \in Actions}

\* priorities on both sides of the threshold of extract_priority_int
ThresholdPriorities ==
    {IntPriority(1), IntPriority(EpochOrdinal),
     DatePriority(EpochOrdinal - 1), DatePriority(Ymd2Ord(2024, 1, 1))}

\* the entities toDict is called on
ProjectEntities == {NewProject(name, priority, 11) : name \in Names, priority \in ThresholdPriorities}
RecurrenceEntities == RecurrenceArgs \ {None}
TaskEntities ==
    {NewTask(Ymd2Ord(2024, 1, 1), project, desc, action, recurrence, 21) :
        project \in {ProjectRef(1), BareUUID(14)}, desc \in Descs, action \in Actions,
        recurrence \in RecurrenceArgs}

\* a record with one more key, and a record with the value of a key replaced by a
\* value of the other type
With(rec, key, v) == [k \in DOMAIN rec \cup {key} |-> IF k = key THEN v ELSE rec[k]]
Retyped(rec, key) == [rec EXCEPT ![key] = IF IsInt(@) THEN JStr("x") ELSE JInt(0)]

\* a record as toDict wrote it, and what a writer that is not toDict can make of
\* it: a key left out, a value of another type, a key the schema does not list
Variants(rec) ==
    {rec}
    \cup {Without(rec, {k}) : k \in DOMAIN rec}
    \cup {Retyped(rec, k) : k \in DOMAIN rec}
    \cup {With(rec, "extra", JInt(0))}

ProjectRecords == UNION {Variants(ProjectToDict(p)) : p \in ProjectEntities}
RecurrenceRecords == UNION {Variants(RecurrenceToDict(r)) : r \in RecurrenceEntities}
TaskRecords ==
    UNION {Variants(TaskToDict(SomeProjects, t)) : t \in TaskEntities}
    \cup {With(TaskToDict(SomeProjects, t), "recurrence", r) :
             t \in {e \in TaskEntities : e.recurrence = None}, r \in RecurrenceRecords}

\* what the caller of the last function saw: the function, its argument, its result
Applied(op, arg, res) == [op |-> op, arg |-> arg, res |-> res]

Apply(op, arg, res) ==
    /\ last' = Applied(op, arg, res)
    /\ UNCHANGED <<pobjs, tobjs, projects, tasks, db, remote, calls, auth, nAuth, nOps, nFail>>

CallInit ==
    /\ pobjs = SomeProjects
    /\ tobjs = <<>>
    /\ projects = <<>>
    /\ tasks = <<>>
    /\ db = FALSE
    /\ auth = SignedOut
    /\ remote = [initialized |-> FALSE, projects |-> <<>>, tasks |-> <<>>,
                 archivetasks |-> <<>>]
    /\ calls = <<>>
    /\ last = Done("init", 0, "")
    /\ nAuth = 0
    /\ nOps = 0
    /\ nFail = 0

\* Recurrence.getNextDate
CallGetNextDate(r) == Apply("getNextDate", r, getNextDate(r))

\* Project.fromDict, Task.fromDict, Recurrence.fromDict on a record
CallProjectFromDict(data) == Apply("Project.fromDict", data, ProjectFromDict(data))
CallTaskFromDict(data) == Apply("Task.fromDict", data, TaskFromDict(data))
CallRecurrenceFromDict(data) == Apply("Recurrence.fromDict", data, RecurrenceFromDict(data))

\* fromDict(e.toDict())
RoundTripProject(p) == Apply("Project.toDict", p, ProjectFromDict(ProjectToDict(p)))
RoundTripTask(t) == Apply("Task.toDict", t, TaskFromDict(TaskToDict(pobjs, t)))
RoundTripRecurrence(r) == Apply("Recurrence.toDict", r, RecurrenceFromDict(RecurrenceToDict(r)))

\* a < b and the other comparisons sorted() can make among three Tasks
CompareTasks(a, b, c) ==
    Apply("Task.__lt__", <<a, b, c>>,
          [aa |-> TaskLt(pobjs, a, a), ab |-> TaskLt(pobjs, a, b),
           ba |-> TaskLt(pobjs, b, a), bc |-> TaskLt(pobjs, b, c),
           ac |-> TaskLt(pobjs, a, c)])

\* p < q and q < p of two Projects
CompareProjects(p, q) ==
    Apply("Project.__lt__", <<p, q>>, [pq |-> ProjectLt(p, q), qp |-> ProjectLt(q, p)])

\* the Projects addTask is called on: with no Task, with one, with two
ProjectsWithTasks ==
    {[p EXCEPT !.tasks = ts] :
        p \in ProjectEntities, ts \in {<<>>, <<TaskRef(1)>>, <<TaskRef(1), TaskRef(2)>>}}

\* Project.addTask(t)
CallProjectAddTask(p, t) == Apply("Project.addTask", <<p, t>>, ProjectAddTask(p, t))

\* the functions keep no state between calls: a behaviour is one call
Fresh == last.op = "init"

CallNext ==
    \/ Fresh /\ \E r \in Rules : CallGetNextDate(r)
    \/ Fresh /\ \E data \in ProjectRecords : CallProjectFromDict(data)
    \/ Fresh /\ \E data \in TaskRecords : CallTaskFromDict(data)
    \/ Fresh /\ \E data \in RecurrenceRecords : CallRecurrenceFromDict(data)
    \/ Fresh /\ \E p \in ProjectEntities : RoundTripProject(p)
    \/ Fresh /\ \E t \in TaskEntities : RoundTripTask(t)
    \/ Fresh /\ \E r \in RecurrenceEntities : RoundTripRecurrence(r)
    \/ Fresh /\ \E a \in SomeTasks, b \in SomeTasks, c \in SomeTasks : CompareTasks(a, b, c)
    \/ Fresh /\ \E p \in ProjectEntities, q \in ProjectEntities : CompareProjects(p, q)
    \/ Fresh /\ \E p \in ProjectsWithTasks, t \in {1, 2, 3} : CallProjectAddTask(p, t)

CallSpec == CallInit /\ [][CallNext]_vars

(***************************************************************************)
(* Vocabulary of the properties                                             *)
(***************************************************************************)
\* the step is an operation of the main thread other than authenticate
OpStep ==
    /\ nOps' = nOps + 1
    /\ auth' = auth

ProjectSetterOps == {"Project.name", "Project.priority"}
TaskSetterOps ==
    {"Task.dueDate", "Task.project", "Task.desc", "Task.action", "Task.recurrence"}

\* the entity was deserialized from a stored record, not constructed in this session
FromLoad(obj) == obj.uid < 10

\* the update call that writes the Project object p, and nothing else
ProjectWrite(p) == Path("projects", pobjs[p].uid) :> ProjectToDict(pobjs[p])

\* the update call that writes the Task object t, and nothing else
TaskWrite(t) == Path("tasks", tobjs[t].uid) :> TaskToDict(pobjs, tobjs[t])

\* every Task record names a Project record of the set
Consistent(rem) ==
    \A u \in DOMAIN rem.tasks :
        /\ rem.tasks[u].project.v \in DOMAIN rem.projects
        /\ rem.tasks[u].project.v \notin DOMAIN rem.tasks

\* the field of entity obj that the setter named op assigns
FieldOf(op, obj) ==
    CASE op = "Project.name" -> obj.name
      [] op = "Project.priority" -> obj.priority
      [] op = "Task.dueDate" -> obj.dueDate
      [] op = "Task.project" -> obj.project
      [] op = "Task.desc" -> obj.desc
      [] op = "Task.action" -> obj.action
      [] op = "Task.recurrence" -> obj.recurrence

Count(l, x) == Cardinality({i \in DOMAIN l : l[i] = x})

\* how many times the store's write callback is registered on the entity
WriteCallbacks(obj) ==
    Cardinality({i \in DOMAIN obj.changeCb : obj.changeCb[i].fn \in StoreCallbacks})

\* the step is an authenticate call whose load ran to its end
LoadStep ==
    /\ nAuth' = nAuth + 1
    /\ last'.op = "authenticate"
    /\ last'.err = ""

(***************************************************************************)
(* C1: a field setter of a loaded entity makes one update call              *)
(***************************************************************************)
\* C1: after a call of a field setter on a Project or Task that load brought into
\* the store (and on which no caller registered the store's write callback once
\* more), the entity holds the assigned value, the operation has made exactly one
\* update call, and that call writes the entity's toDict() record (of its values
\* after the mutation) under the entity's own path projects/{uid} or tasks/{uid} and
\* under no other path.
C1_LoadedSetterWritesOnce ==
    /\ (/\ last.op \in ProjectSetterOps
        /\ FromLoad(pobjs[last.ref])
        /\ WriteCallbacks(pobjs[last.ref]) = 1) =>
           /\ FieldOf(last.op, pobjs[last.ref]) = last.arg
           /\ Len(calls) = 1
           /\ calls[1].data = ProjectWrite(last.ref)
    /\ (/\ last.op \in TaskSetterOps
        /\ FromLoad(tobjs[last.ref])
        /\ WriteCallbacks(tobjs[last.ref]) = 1) =>
           /\ FieldOf(last.op, tobjs[last.ref]) = last.arg
           /\ Len(calls) = 1
           /\ calls[1].data = TaskWrite(last.ref)

\* a loaded Task was given another Project and the store holds the new record
C1_Witness ==
    /\ last.op = "Task.project"
    /\ FromLoad(tobjs[last.ref])
    /\ Len(calls) = 1
    /\ calls[1].ok
    /\ tobjs[last.ref].uid \in DOMAIN remote.tasks
    /\ remote.tasks[tobjs[last.ref].uid].project = JStr(1)
    /\ 2 \in DOMAIN remote.projects

(***************************************************************************)
(* C2: entities added with addProject / addTask                             *)
(***************************************************************************)
\* C2: a field setter called on an entity that addProject or addTask put into the
\* store (no remote call having failed) makes exactly one update call, which writes
\* the entity's current record, as it does for a loaded entity.
C2_AddedSetterWritesOnce ==
    /\ (last.op \in ProjectSetterOps /\ InList(projects, last.ref) /\ nFail = 0) =>
           /\ Len(calls) = 1
           /\ calls[1].data = ProjectWrite(last.ref)
    /\ (last.op \in TaskSetterOps /\ InList(tasks, last.ref) /\ nFail = 0) =>
           /\ Len(calls) = 1
           /\ calls[1].data = TaskWrite(last.ref)

(***************************************************************************)
(* C3: addProject / addTask                                                 *)
(***************************************************************************)
\* C3: on an authenticated store, addProject(p) appends p to the list getProjects()
\* returns and makes one update call that writes p's toDict() record under
\* projects/{uid} (and nothing else); when the call succeeds the remote store holds
\* that record there. The same for addTask(t), getTasks() and tasks/{uid}.
C3_AddAppendsAndWrites ==
    [][/\ (OpStep /\ last'.op = "addProject" /\ db) =>
              /\ getProjects' = Append(getProjects, last'.ref)
              /\ calls' = <<Call(ProjectWrite(last'.ref), last'.err = "")>>
              /\ last'.err = "" =>
                     /\ remote'.projects[pobjs[last'.ref].uid] = ProjectToDict(pobjs[last'.ref])
                     /\ remote' = Update(remote, ProjectWrite(last'.ref))
       /\ (OpStep /\ last'.op = "addTask" /\ db) =>
              /\ getTasks' = Append(getTasks, last'.ref)
              /\ calls' = <<Call(TaskWrite(last'.ref), last'.err = "")>>
              /\ last'.err = "" =>
                     /\ remote'.tasks[tobjs[last'.ref].uid] = TaskToDict(pobjs, tobjs[last'.ref])
                     /\ remote' = Update(remote, TaskWrite(last'.ref))
      ]_vars

\* a Task constructed in this session was added and its record is in the store
C3_Witness ==
    /\ last.op = "addTask"
    /\ last.err = ""
    /\ ~FromLoad(tobjs[last.ref])
    /\ getTasks[Len(getTasks)] = last.ref
    /\ tobjs[last.ref].uid \in DOMAIN remote.tasks

(***************************************************************************)
(* C4: the remote store mirrors the live collections                        *)
(***************************************************************************)
\* the uids and records of the live collections
LiveProjectUids == {pobjs[projects[i]].uid : i \in DOMAIN projects}
LiveTaskUids == {tobjs[tasks[i]].uid : i \in DOMAIN tasks}

\* C4: after a load, as long as no remote call has failed, the remote projects/ and
\* tasks/ subtrees hold exactly the identifiers of the live collections, and under
\* each identifier the toDict() record of the live entity.
C4_Mirror ==
    (nAuth > 0 /\ nFail = 0) =>
        /\ DOMAIN remote.projects = LiveProjectUids
        /\ DOMAIN remote.tasks = LiveTaskUids
        /\ \A i \in DOMAIN projects :
               remote.projects[pobjs[projects[i]].uid] = ProjectToDict(pobjs[projects[i]])
        /\ \A i \in DOMAIN tasks :
               remote.tasks[tobjs[tasks[i]].uid] = TaskToDict(pobjs, tobjs[tasks[i]])

(***************************************************************************)
(* C5: isComplete after load                                                *)
(***************************************************************************)
\* C5: right after a load over a consistent record set, isComplete() is true of
\* every Task in getTasks() and of every Project in getProjects().
C5_LoadedAreComplete ==
    (last.op = "authenticate" /\ last.err = "" /\ Consistent(remote)) =>
        /\ \A i \in DOMAIN getTasks : TaskIsComplete(tobjs[getTasks[i]])
        /\ \A i \in DOMAIN getProjects : ProjectIsComplete(pobjs[getProjects[i]])

(***************************************************************************)
(* C6: load resolves every Task to its Project, whatever the arrival order  *)
(***************************************************************************)
\* C6: a load over a consistent record set creates, for every Task record, one Task
\* object in getTasks() whose project is the Project object this load created for the
\* record's project identifier (a member of getProjects()), and that Task occurs
\* exactly once in that Project's tasks; this holds for every arrival order of the
\* records.
C6_LoadResolves ==
    [][(LoadStep /\ Consistent(remote)) =>
          \A u \in DOMAIN remote.tasks :
              LET new == {t \in DOMAIN tobjs' \ DOMAIN tobjs : tobjs'[t].uid = u}
              IN  /\ Cardinality(new) = 1
                  /\ \A t \in new :
                         /\ Count(getTasks', t) = 1
                         /\ tobjs'[t].project.type = "Project"
                         /\ tobjs'[t].project.ref \in DOMAIN pobjs' \ DOMAIN pobjs
                         /\ pobjs'[tobjs'[t].project.ref].uid = remote.tasks[u].project.v
                         /\ InList(getProjects', tobjs'[t].project.ref)
                         /\ Count(pobjs'[tobjs'[t].project.ref].tasks, TaskRef(t)) = 1
      ]_vars

\* two Task records of one Project were loaded, the later key first
C6_Witness ==
    /\ last.op = "authenticate"
    /\ last.err = ""
    /\ Consistent(remote)
    /\ Len(getTasks) = 2
    /\ tobjs[getTasks[1]].uid > tobjs[getTasks[2]].uid
    /\ Len(pobjs[1].tasks) = 2

(***************************************************************************)
(* C7: unresolved Tasks and getTasks()                                      *)
(***************************************************************************)
\* C7: no Task in getTasks() has a bare identifier as its project.
C7_NoBareProjectInGetTasks ==
    \A i \in DOMAIN getTasks : tobjs[getTasks[i]].project.type # "UUID"

(***************************************************************************)
(* C8: removeProject                                                        *)
(***************************************************************************)
\* C8: removeProject(p) raises and changes nothing when p.hasTasks(); otherwise p is
\* no longer in getProjects() and the remote store has no record projects/{p.uid}.
C8_RemoveProject ==
    [][(OpStep /\ last'.op = "removeProject") =>
          IF hasTasks(pobjs[last'.ref])
          THEN /\ last'.err # ""
               /\ UNCHANGED <<pobjs, tobjs, projects, tasks, remote>>
          ELSE /\ ~InList(getProjects', last'.ref)
               /\ pobjs[last'.ref].uid \notin DOMAIN remote'.projects
      ]_vars

(***************************************************************************)
(* C9, C10: completeTask on a Task without a recurrence rule                *)
(***************************************************************************)
\* the last operation completed a Task of the store that has no recurrence rule
CompletedOneOff ==
    /\ last.op = "completeTask"
    /\ last.err \in {"", "HTTPError"}
    /\ tobjs[last.ref].recurrence = None

\* C9: after completeTask(t) on a Task without a recurrence rule, t is neither in
\* getTasks() nor in the tasks of its Project.
C9_CompletedLeavesProject ==
    (CompletedOneOff /\ last.err = "") =>
        /\ ~InList(getTasks, last.ref)
        /\ tobjs[last.ref].project.type = "Project" =>
               ~InList(pobjs[tobjs[last.ref].project.ref].tasks, TaskRef(last.ref))

\* the deletion of tasks/{uid} together with the record for archivetasks/{uid}
ArchiveWrite(t) ==
    Path("tasks", tobjs[t].uid) :> None
    @@ Path("archivetasks", tobjs[t].uid) :> TaskToDict(pobjs, tobjs[t])

\* C10: completeTask(t) on a Task of the store without a recurrence rule makes one
\* update call that carries both the deletion of tasks/{uid} and t's toDict() record
\* for archivetasks/{uid}; when it succeeds the remote store goes in one step to the
\* state without tasks/{uid} and with the record under archivetasks/{uid}, and when
\* it fails the remote store is unchanged.
C10_ArchiveInOneUpdate ==
    [][(OpStep /\ CompletedOneOff') =>
          /\ calls' = <<Call(ArchiveWrite(last'.ref), last'.err = "")>>
          /\ last'.err = "" =>
                 /\ remote' = Update(remote, ArchiveWrite(last'.ref))
                 /\ tobjs[last'.ref].uid \notin DOMAIN remote'.tasks
                 /\ remote'.archivetasks[tobjs[last'.ref].uid]
                        = TaskToDict(pobjs, tobjs[last'.ref])
          /\ last'.err # "" => remote' = remote
      ]_vars

\* a loaded Task was completed: its record left tasks/ and is under archivetasks/
C10_Witness ==
    /\ CompletedOneOff
    /\ last.err = ""
    /\ FromLoad(tobjs[last.ref])
    /\ tobjs[last.ref].uid \notin DOMAIN remote.tasks
    /\ tobjs[last.ref].uid \in DOMAIN remote.archivetasks

(***************************************************************************)
(* C11: completeTask on a Task with a recurrence rule                       *)
(***************************************************************************)
\* the step is a completeTask call that returned, on a Task with a recurrence rule
CompletesRecurring ==
    /\ OpStep
    /\ last'.op = "completeTask"
    /\ last'.err = ""
    /\ tobjs[last'.ref].recurrence # None

\* C11: completeTask(t) on a Task with a recurrence rule leaves getTasks() as it is
\* and does not delete tasks/{uid}; with a daily rule of value 1, t.dueDate is one
\* day later after every completion.
C11_RecurringCompletionAdvances ==
    [][CompletesRecurring =>
          /\ getTasks' = getTasks
          /\ tobjs[last'.ref].uid \in DOMAIN remote.tasks =>
                 tobjs[last'.ref].uid \in DOMAIN remote'.tasks
          /\ (/\ tobjs[last'.ref].recurrence.recurrence = DAILY_RECURRENCE
              /\ tobjs[last'.ref].recurrence.value = 1) =>
                 tobjs'[last'.ref].dueDate = tobjs[last'.ref].dueDate + 1
      ]_vars

(***************************************************************************)
(* C12: load over a record set with a malformed record                      *)
(***************************************************************************)
\* C12: when load fails on a malformed record, getProjects() and getTasks() hold
\* none of the records deserialized before the failure.
C12_FailedLoadLeavesNothing ==
    (last.op = "authenticate" /\ last.err = "SchemaError") =>
        /\ getProjects = <<>>
        /\ getTasks = <<>>

(***************************************************************************)
(* C14: the three outcomes of resolving a bare identifier                   *)
(***************************************************************************)
\* the step is an authenticate call that got the records and ran __loadFromDb over
\* well-formed records
LoadRan ==
    /\ nAuth' = nAuth + 1
    /\ last'.op = "authenticate"
    /\ last'.err \notin {"AuthenticationError", "SchemaError", "ValueError"}

\* the Task objects the load's resolution pass goes through: those its list held
\* already and those the load created from the records
Listed == {getTasks'[i] : i \in DOMAIN getTasks'}

\* the project field of such a Task object when the resolution pass starts
Unresolved(t) ==
    IF t \in DOMAIN tobjs THEN tobjs[t].project
    ELSE BareUUID(remote.tasks[tobjs'[t].uid].project.v)

\* C14: in a load, a Task's bare project identifier that is absent from the lookup
\* stays a bare identifier and raises nothing; one that maps to a Project becomes
\* that Project object; one that maps to an entity of another type (a Task) raises,
\* and the load fails.
C14_ResolveOutcomes ==
    [][LoadRan =>
          LET bare == {t \in Listed : Unresolved(t).type = "UUID"}
              wrong == {t \in bare : Unresolved(t).uid \in DOMAIN remote.tasks}
          IN  /\ wrong # {} <=> last'.err # ""
              /\ wrong # {} => last'.err = "RuntimeError"
              /\ \A t \in bare :
                     LET id == Unresolved(t).uid
                     IN  /\ id \notin DOMAIN remote.projects \cup DOMAIN remote.tasks =>
                                tobjs'[t].project = BareUUID(id)
                         /\ (id \in DOMAIN remote.projects /\ wrong = {}) =>
                                /\ tobjs'[t].project.type = "Project"
                                /\ tobjs'[t].project.ref \in DOMAIN pobjs' \ DOMAIN pobjs
                                /\ pobjs'[tobjs'[t].project.ref].uid = id
                                /\ InList(getProjects', tobjs'[t].project.ref)
                         /\ id \in DOMAIN remote.tasks =>
                                tobjs'[t].project = BareUUID(id)
      ]_vars

\* a load met a Task whose project identifier is the uid of another Task, and failed
C14_Witness ==
    /\ last.op = "authenticate"
    /\ last.err = "RuntimeError"
    /\ \E u \in DOMAIN remote.tasks : remote.tasks[u].project.v \in DOMAIN remote.tasks
    /\ \E i \in DOMAIN getTasks : tobjs[getTasks[i]].project = BareUUID(4)

(***************************************************************************)
(* C19: a month-day rule whose target month is too short                    *)
(***************************************************************************)
\* the month that lies k months after month m of year y
MonthsLater(y, m, k) ==
    [year |-> y + ((m - 1 + k) \div 12), month |-> ((m - 1 + k) % 12) + 1]

\* r is a month-day rule and the month value months after its anchor has fewer days
\* than the anchor's day-of-month
ShortTargetMonth(r) ==
    /\ r # None
    /\ r.recurrence = MONTHDAY_RECURRENCE
    /\ LET to == MonthsLater(OrdYear(r.dueDate), OrdMonth(r.dueDate), r.value)
       IN  DaysInMonth(to.year, to.month) < OrdDay(r.dueDate)

\* C19: completeTask(t) on an authenticated store, t having a month-day rule whose
\* target month has fewer days than the anchor's day-of-month, raises (nothing is
\* clamped) and leaves t's due date, the live collections and the remote store as
\* they were, with no update call made.
C19_ShortMonthSurfaces ==
    [][(/\ OpStep
        /\ last'.op = "completeTask"
        /\ db
        /\ ShortTargetMonth(tobjs[last'.ref].recurrence)) =>
          /\ last'.err = "ValueError"
          /\ calls' = <<>>
          /\ UNCHANGED <<pobjs, tobjs, projects, tasks, remote>>
      ]_vars

\* completeTask raised on a Task whose month-day rule of value 1 is anchored at
\* 2024-01-31
C19_Witness ==
    /\ last.op = "completeTask"
    /\ last.err = "ValueError"
    /\ ShortTargetMonth(tobjs[last.ref].recurrence)
    /\ tobjs[last.ref].recurrence.dueDate = Ymd2Ord(2024, 1, 31)
    /\ tobjs[last.ref].recurrence.value = 1

(***************************************************************************)
(* C13: what fromDict accepts and rejects                                   *)
(***************************************************************************)
\* the required keys of the three kinds of record and the type of each
ProjectKeys == [name |-> "str", priority |-> "int", uid |-> "str"]
TaskKeys ==
    [dueDate |-> "int", project |-> "str", desc |-> "str", action |-> "int", uid |-> "str"]
RecurrenceKeys == [recurrence |-> "str", value |-> "int", dueDate |-> "int"]

\* data has every required key, with a value of the key's type
HasRequired(data, keys) ==
    \A k \in DOMAIN keys :
        /\ k \in DOMAIN data
        /\ "type" \in DOMAIN data[k]
        /\ data[k].type = keys[k]

\* the verdict C13 states for a record: accepted when the required keys are there
\* and typed (whatever other keys it has), a schema error otherwise
Verdict(required) ==
    IF required THEN last.res.ok ELSE last.res = Raise("SchemaError")

\* C13: fromDict of Project, Task and Recurrence raises a schema error for every
\* record that omits a required key or holds a value of another type for it, and
\* accepts every record that has the required keys correctly typed, also when it
\* has keys the schema does not know.
C13_FromDictVerdict ==
    /\ last.op = "Project.fromDict" => Verdict(HasRequired(last.arg, ProjectKeys))
    /\ last.op = "Recurrence.fromDict" => Verdict(HasRequired(last.arg, RecurrenceKeys))
    /\ last.op = "Task.fromDict" =>
           Verdict(/\ HasRequired(last.arg, TaskKeys)
                   /\ "recurrence" \in DOMAIN last.arg =>
                          HasRequired(last.arg.recurrence, RecurrenceKeys))

(***************************************************************************)
(* C15: fromDict(toDict(e))                                                 *)
(***************************************************************************)
\* the fields of an entity but its callback registrations; a Task's project is
\* compared as the identifier it stands for
Fields(e) ==
    IF "project" \in DOMAIN e
    THEN [e EXCEPT !.changeCb = <<>>, !.project = BareUUID(ProjectUidOf(pobjs, @))]
    ELSE [e EXCEPT !.changeCb = <<>>]

\* C15: for every Project, Task and Recurrence e, fromDict(toDict(e)) returns an
\* entity whose fields equal those of e.
C15_RoundTrip ==
    last.op \in {"Project.toDict", "Task.toDict", "Recurrence.toDict"} =>
        /\ last.res.ok
        /\ Fields(last.res.v) = Fields(last.arg)

(***************************************************************************)
(* C16, C17, C18: getNextDate                                               *)
(***************************************************************************)
\* the last call was getNextDate on a rule of this kind
NextDateOf(kind) == last.op = "getNextDate" /\ last.arg.recurrence = kind

\* C16: for the month-day kind, getNextDate returns the date with the anchor's
\* day-of-month in the month that lies value months after the anchor's, whenever
\* that date exists, also when that month is in a later year.
C16_MonthDayNext ==
    NextDateOf(MONTHDAY_RECURRENCE) =>
        LET day == OrdDay(last.arg.dueDate)
            to == MonthsLater(OrdYear(last.arg.dueDate), OrdMonth(last.arg.dueDate),
                              last.arg.value)
        IN  ValidYmd(to.year, to.month, day) =>
                last.res = Ok(Ymd2Ord(to.year, to.month, day))

\* C17: for the month-weekday kind, getNextDate returns the first day of the month
\* after the anchor's that has the anchor's weekday, plus (day - 1) \div 7 weeks; the
\* result has the weekday of the anchor.
C17_MonthWeekdayNext ==
    NextDateOf(MONTHWEEKDAY_RECURRENCE) =>
        LET weekNum == (OrdDay(last.arg.dueDate) - 1) \div 7
            nextMonth == FirstOfMonth(FirstOfMonth(last.arg.dueDate) + 32)
            first == nextMonth + ((Weekday(last.arg.dueDate) - Weekday(nextMonth)) % 7)
        IN  /\ last.res = Ok(first + 7 * weekNum)
            /\ Weekday(last.res.v) = Weekday(last.arg.dueDate)

\* C18: getNextDate returns the anchor plus value days for the daily kind and the
\* anchor plus 7 * value days for the weekday kind: 2024-01-04 for daily 3 from
\* 2024-01-01, 2024-01-15 for weekday 2 from 2024-01-01.
C18_DailyAndWeekdayNext ==
    /\ NextDateOf(DAILY_RECURRENCE) =>
           /\ last.res = Ok(last.arg.dueDate + last.arg.value)
           /\ (last.arg.value = 3 /\ last.arg.dueDate = Ymd2Ord(2024, 1, 1)) =>
                  last.res = Ok(Ymd2Ord(2024, 1, 4))
    /\ NextDateOf(WEEKDAY_RECURRENCE) =>
           /\ last.res = Ok(last.arg.dueDate + 7 * last.arg.value)
           /\ (last.arg.value = 2 /\ last.arg.dueDate = Ymd2Ord(2024, 1, 1)) =>
                  last.res = Ok(Ymd2Ord(2024, 1, 15))

\* weekday 2 was asked from Monday 2024-01-01 and gave Monday 2024-01-15
C18_Witness ==
    /\ NextDateOf(WEEKDAY_RECURRENCE)
    /\ last.arg.value = 2
    /\ last.arg.dueDate = Ymd2Ord(2024, 1, 1)
    /\ last.res = Ok(Ymd2Ord(2024, 1, 15))
    /\ Weekday(last.res.v) = 0

(***************************************************************************)
(* C20: the order of Tasks                                                  *)
(***************************************************************************)
\* the order of the project fields of two Tasks: Project.__lt__ between Projects,
\* the order of the identifiers between bare identifiers
ProjectBefore(a, b) ==
    IF a.type = "Project" /\ b.type = "Project" THEN ProjectLt(pobjs[a.ref], pobjs[b.ref])
    ELSE IF a.type = "UUID" /\ b.type = "UUID" THEN a.uid < b.uid
    ELSE FALSE

\* ascending lexicographic order of (dueDate, project, action, desc)
LexLt(a, b) ==
    \/ a.dueDate < b.dueDate
    \/ /\ a.dueDate = b.dueDate
       /\ \/ ProjectBefore(a.project, b.project)
          \/ /\ ~ProjectBefore(b.project, a.project)
             /\ \/ a.action < b.action
                \/ a.action = b.action /\ StrLt(a.desc, b.desc)

\* C20: Task.__lt__ answers every comparison among three Tasks; a < b is the
\* ascending lexicographic order of (dueDate, project, action, desc), and it is
\* irreflexive, asymmetric and transitive.
C20_TaskOrder ==
    last.op = "Task.__lt__" =>
        /\ \A k \in DOMAIN last.res : last.res[k].ok
        /\ last.res.ab.v = LexLt(last.arg[1], last.arg[2])
        /\ ~last.res.aa.v
        /\ last.res.ab.v => ~last.res.ba.v
        /\ (last.res.ab.v /\ last.res.bc.v) => last.res.ac.v

\* the parts of C20 on Tasks whose projects are all Project objects
ResolvedTaskOrder ==
    (/\ last.op = "Task.__lt__"
     /\ \A i \in 1..3 : last.arg[i].project.type = "Project") =>
        /\ \A k \in DOMAIN last.res : last.res[k].ok
        /\ last.res.ab.v = LexLt(last.arg[1], last.arg[2])
        /\ ~last.res.aa.v
        /\ last.res.ab.v => ~last.res.ba.v
        /\ (last.res.ab.v /\ last.res.bc.v) => last.res.ac.v

(***************************************************************************)
(* C21: for a Project a with an integer priority and a Project b with a     *)
(* date priority, a < b is true and b < a is false.                         *)
(***************************************************************************)
C21_IntBeforeDate ==
    (/\ last.op = "Project.__lt__"
     /\ last.arg[1].priority.type = "int"
     /\ last.arg[2].priority.type = "date")
    => last.res.pq /\ ~last.res.qp

\* what the code does instead: the Project with the date priority is the lesser
DateBeforeInt ==
    (/\ last.op = "Project.__lt__"
     /\ last.arg[1].priority.type = "int"
     /\ last.arg[2].priority.type = "date")
    => ~last.res.pq /\ last.res.qp

(***************************************************************************)
(* C22: a failed remote write                                               *)
(***************************************************************************)
\* the step is an operation whose last update call failed
FailedWrite ==
    /\ OpStep
    /\ calls' # <<>>
    /\ ~calls'[Len(calls')].ok

\* C22: when the update call of a field setter, of addProject, of addTask or of
\* completeTask fails, the caller of the operation gets the error, and the change
\* the operation made in memory before the call stays: the entity holds the assigned
\* value, the list holds the appended entity or lacks the removed one; when the
\* failed call was the operation's only one, the remote store is as it was.
C22_FailedWriteSurfaces ==
    [][FailedWrite =>
          /\ last'.err = "HTTPError"
          /\ Len(calls') = 1 => remote' = remote
          /\ last'.op \in ProjectSetterOps \cup TaskSetterOps
                  \cup {"addProject", "addTask", "completeTask"}
          /\ last'.op \in ProjectSetterOps =>
                 FieldOf(last'.op, pobjs'[last'.ref]) = last'.arg
          /\ last'.op \in TaskSetterOps =>
                 FieldOf(last'.op, tobjs'[last'.ref]) = last'.arg
          /\ last'.op = "addProject" => getProjects' = Append(getProjects, last'.ref)
          /\ last'.op = "addTask" => getTasks' = Append(getTasks, last'.ref)
          /\ last'.op = "completeTask" =>
                 IF tobjs[last'.ref].recurrence # None
                 THEN /\ tobjs'[last'.ref].dueDate = getNextDate(tobjs[last'.ref].recurrence).v
                      /\ getTasks' = getTasks
                 ELSE getTasks' = ListRemove(getTasks, last'.ref)
      ]_vars

\* the write of a new description of a loaded Task failed: the caller got the error,
\* the Task holds the new description and the remote record the old one
C22_Witness ==
    /\ last.op = "Task.desc"
    /\ last.err = "HTTPError"
    /\ FromLoad(tobjs[last.ref])
    /\ tobjs[last.ref].desc = last.arg
    /\ tobjs[last.ref].uid \in DOMAIN remote.tasks
    /\ remote.tasks[tobjs[last.ref].uid].desc # JStr(last.arg)

(***************************************************************************)
(* C23: the token refresh                                                   *)
(***************************************************************************)
\* the step is a round of an __autoRefresh thread: the authentication state changes
\* and no authenticate call is made
RefreshStep ==
    /\ auth' # auth
    /\ nAuth' = nAuth

\* C23: a round of the periodic token refresh, wherever it falls between the
\* operations of the main thread, changes authentication state only: the live
\* Project and Task collections, the entities, the remote entity records and what
\* the caller of the last entity operation saw are the same after it, and it makes
\* no update call.
C23_RefreshTouchesAuthOnly ==
    [][RefreshStep =>
          /\ UNCHANGED <<pobjs, tobjs, projects, tasks, db, remote, calls, last>>
          /\ getProjects' = getProjects
          /\ getTasks' = getTasks
      ]_vars

\* a refresh ran in a session in which a Task was added and written
C23_Witness ==
    /\ auth.issued > auth.token
    /\ auth.refreshers > 0
    /\ last.op = "addTask"
    /\ last.err = ""
    /\ InList(getTasks, last.ref)

(***************************************************************************)
(* C24: the anchor date of a recurrence rule                                *)
(***************************************************************************)
\* C24: whenever the due date of a Task that has a recurrence rule changes, through
\* the Task.dueDate setter or through completeTask, the rule's anchor date equals
\* the Task's new due date afterwards.
C24_AnchorFollowsDueDate ==
    [][\A t \in DOMAIN tobjs :
          (/\ tobjs'[t].dueDate # tobjs[t].dueDate
           /\ tobjs'[t].recurrence # None
           /\ last'.op \in {"Task.dueDate", "completeTask"}) =>
              tobjs'[t].recurrence.dueDate = tobjs'[t].dueDate
      ]_vars

(***************************************************************************)
(* C25: a Task is in a Project's collection once                            *)
(***************************************************************************)
\* C25: Project.addTask(t) for a Task t already present in the Project's task
\* collection raises an error (and so leaves the collection as it is, with the Task
\* in it once).
C25_AddTaskTwiceIsError ==
    (/\ last.op = "Project.addTask"
     /\ InList(last.arg[1].tasks, TaskRef(last.arg[2])))
    => ~last.res.ok

\* what does hold: addTask of a Task that is not in the collection puts it there once
AddTaskOnce ==
    (/\ last.op = "Project.addTask"
     /\ ~InList(last.arg[1].tasks, TaskRef(last.arg[2])))
    => /\ last.res.ok
       /\ Count(last.res.v.tasks, TaskRef(last.arg[2])) = 1

\* what the store's own operations keep: no Task is in the collections of two
\* Projects or twice in one
InOneCollectionOnce ==
    \A t \in DOMAIN tobjs :
        /\ Cardinality({p \in DOMAIN pobjs : InList(pobjs[p].tasks, TaskRef(t))}) <= 1
        /\ \A p \in DOMAIN pobjs : Count(pobjs[p].tasks, TaskRef(t)) <= 1

(***************************************************************************)
(* C26: the Tasks of the live collection refer to live Projects             *)
(***************************************************************************)
\* every Task in getTasks() whose project is a Project object refers to a Project
\* that is in getProjects()
LiveTasksReferToLive ==
    \A i \in DOMAIN getTasks :
        tobjs[getTasks[i]].project.type = "Project" =>
            InList(getProjects, tobjs[getTasks[i]].project.ref)

\* C26: addTask(t) with t.project a Project that is not in getProjects() is rejected
\* and changes neither getTasks() nor the remote store, so that every Task in
\* getTasks() whose project is resolved refers to a Project in getProjects().
C26_ReferentialIntegrity ==
    [][(/\ OpStep
        /\ last'.op = "addTask"
        /\ tobjs[last'.ref].project.type = "Project"
        /\ ~InList(getProjects, tobjs[last'.ref].project.ref)) =>
           /\ last'.err # ""
           /\ getTasks' = getTasks
           /\ remote' = remote
           /\ LiveTasksReferToLive => LiveTasksReferToLive'
      ]_vars

\* what does hold: right after a load that ran to its end
LoadedTasksReferToLive ==
    (last.op = "authenticate" /\ last.err = "") => LiveTasksReferToLive

(***************************************************************************)
(* C27: the callbacks of an entity                                          *)
(***************************************************************************)
\* every callback registered on the entity invoked once, in registration order, with
\* its registration-time args and kwargs and the entity (holding the record rec)
FanOut(cbs, path, rec) == [i \in 1..Len(cbs) |-> Invocation(cbs[i], path, rec)]

\* the invocations a setter call on the Project p / the Task t is to make
ProjectFanOut(p) ==
    FanOut(pobjs[p].changeCb, Path("projects", pobjs[p].uid), ProjectToDict(pobjs[p]))
TaskFanOut(t) ==
    FanOut(tobjs[t].changeCb, Path("tasks", tobjs[t].uid), TaskToDict(pobjs, tobjs[t]))

\* the invocations made are those of the callbacks up to a store callback, which
\* raised
UntilRaise(invoked, all) ==
    \E n \in DOMAIN all :
        /\ invoked = SubSeq(all, 1, n)
        /\ all[n].fn \in StoreCallbacks

\* every update call made wrote the same data and went through
WritesOf(data, n) ==
    /\ Len(calls) = n
    /\ \A i \in DOMAIN calls : calls[i] = Call(data, TRUE)

\* C27: a field setter call on an entity with k registered callbacks has
\* stored the new value and invoked all k callbacks once each, in registration
\* order, with the registration-time args and kwargs and the entity (holding the new
\* value) under its keyword; an authenticated store whose write callback is
\* registered twice on the entity has made two identical update calls.
C27_FanOut ==
    /\ last.op \in ProjectSetterOps =>
           /\ FieldOf(last.op, pobjs[last.ref]) = last.arg
           /\ last.invoked = ProjectFanOut(last.ref)
           /\ (db /\ WriteCallbacks(pobjs[last.ref]) = 2) =>
                  /\ Len(calls) = 2
                  /\ calls[1].data = calls[2].data
    /\ last.op \in TaskSetterOps =>
           /\ FieldOf(last.op, tobjs[last.ref]) = last.arg
           /\ last.invoked = TaskFanOut(last.ref)

\* what does hold: a field setter call has stored the new value; when it returned
\* normally it has invoked all k callbacks as above, and on an authenticated store
\* each registration of the write callback has made one update call with the
\* entity's record; when it raised, it has invoked the callbacks in registration
\* order up to the write callback that raised and none of those registered after it
FanOutUntilRaise ==
    /\ last.op \in ProjectSetterOps =>
           /\ FieldOf(last.op, pobjs[last.ref]) = last.arg
           /\ IF last.err = ""
              THEN /\ last.invoked = ProjectFanOut(last.ref)
                   /\ WritesOf(ProjectWrite(last.ref), WriteCallbacks(pobjs[last.ref]))
              ELSE UntilRaise(last.invoked, ProjectFanOut(last.ref))
    /\ last.op \in TaskSetterOps =>
           /\ FieldOf(last.op, tobjs[last.ref]) = last.arg
           /\ IF last.err = ""
              THEN /\ last.invoked = TaskFanOut(last.ref)
                   /\ WritesOf(TaskWrite(last.ref), WriteCallbacks(tobjs[last.ref]))
              ELSE UntilRaise(last.invoked, TaskFanOut(last.ref))

(***************************************************************************)
(* C28: a Project's task collection and the Tasks that refer to it          *)
(***************************************************************************)
\* the Task objects whose project is the Project object p
Referring(p) == {t \in DOMAIN tobjs : tobjs[t].project = ProjectRef(p)}

\* C28: every Task whose project is a Project p of getProjects() is
\* in p.tasks (so after task.project = q the Task is in q.tasks), no Task is in the
\* tasks of a Project it does not refer to, and p.hasTasks() is true exactly when
\* some Task refers to p.
C28_MembershipFollowsReference ==
    \A i \in DOMAIN getProjects :
        LET p == getProjects[i]
        IN  /\ \A t \in Referring(p) : InList(pobjs[p].tasks, TaskRef(t))
            /\ \A t \in DOMAIN tobjs :
                   InList(pobjs[p].tasks, TaskRef(t)) => tobjs[t].project = ProjectRef(p)
            /\ hasTasks(pobjs[p]) <=> Referring(p) # {}

\* what does hold: right after a load that ran to its end
LoadedMembership ==
    (last.op = "authenticate" /\ last.err = "") => C28_MembershipFollowsReference

(***************************************************************************)
(* C29: identifiers in the live collections                                 *)
(***************************************************************************)
\* C29: no identifier occurs more than once in getProjects() and none more than
\* once in getTasks().
C29_UniqueIds ==
    /\ \A i, j \in DOMAIN getProjects :
           pobjs[getProjects[i]].uid = pobjs[getProjects[j]].uid => i = j
    /\ \A i, j \in DOMAIN getTasks :
           tobjs[getTasks[i]].uid = tobjs[getTasks[j]].uid => i = j

\* what does hold: right after the first load
LoadedUniqueIds ==
    (last.op = "authenticate" /\ nAuth = 1) => C29_UniqueIds

(***************************************************************************)
(* C30: load writes no entity record                                        *)
(***************************************************************************)
\* the update call writes below projects/, tasks/ or archivetasks/
EntityWrite(call) == \E path \in DOMAIN call.data : path[1] \in Collections

\* C30: an authenticate call, whose load registers the write callbacks while it
\* deserializes and resolves the references afterwards, makes no update call for a
\* projects/ or tasks/ path, and the remote entity records are after it what they
\* were before.
C30_LoadWritesNoEntity ==
    [][nAuth' = nAuth + 1 =>
          /\ \A i \in DOMAIN calls' : ~EntityWrite(calls'[i])
          /\ remote'.projects = remote.projects
          /\ remote'.tasks = remote.tasks
          /\ remote'.archivetasks = remote.archivetasks
      ]_vars

\* a load ran to its end: a Task with the write callback registered on it had its
\* project resolved to a Project object, and the only update call was __setUpDb's
C30_Witness ==
    /\ last.op = "authenticate"
    /\ last.err = ""
    /\ calls = <<SetUpCall(TRUE)>>
    /\ \E i \in DOMAIN getTasks :
           /\ tobjs[getTasks[i]].project.type = "Project"
           /\ WriteCallbacks(tobjs[getTasks[i]]) = 1
           /\ InList(pobjs[tobjs[getTasks[i]].project.ref].tasks, TaskRef(getTasks[i]))

====
